---- MODULE Spec2Model ----
(***************************************************************************)
(* State-machine model of the 9Air Mockup Tool session state (App.tsx in   *)
(* its three variants) : shape, dimensions, per-face texture map, the      *)
(* object-URL handles behind the textures, the asynchronous image probes   *)
(* of the upload path and of the remote auto-loader; of the dimension      *)
(* fields of the control panel (ControlPanel.NumberInput); and of the view *)
(* (SceneViewer.tsx in its two versions): the scene the models are         *)
(* rendered to, the frame loop and the capture.                            *)
(*                                                                         *)
(* Numbers: a dimension is kept in hundredths of a centimetre (10 cm is    *)
(* 1000), an image is its natural pixel size <<width, height>>, so that    *)
(* parseFloat((height * ratio).toFixed(2)) is integer arithmetic.  The     *)
(* arithmetic is exact: a product that falls on a x.xx5 tie, which a       *)
(* binary double cannot hold, is outside the inputs explored.              *)
(*                                                                         *)
(* React: a functional updater (setX(prev => ...)) is applied to the       *)
(* latest committed value, so each handler or continuation is one step on  *)
(* the committed state; the set-state calls of one handler or one promise  *)
(* continuation are committed together (batched).  Rendering is a step of  *)
(* its own, Render, after which the handlers close over the committed      *)
(* `textures`; between two steps a render may or may not have happened.    *)
(* The render of SceneViewer that commits the state to the three.js scene  *)
(* is likewise a step of its own, renderSceneViewer.                       *)
(***************************************************************************)
EXTENDS Integers, FiniteSets, Sequences, TLC

(***************************************************************************)
(* Bounds of the exploration.                                              *)
(***************************************************************************)
\* number of URL.createObjectURL calls in one run
MaxBlobs == 2

(***************************************************************************)
(* Types (types.ts) and fixed vocabularies.                                *)
(***************************************************************************)
ShapeType == {"CUBE", "SPHERE", "BAG"}

DimKeys == {"width", "height", "depth", "diameter"}

DEFAULT_DIMENSIONS == [width |-> 1000, height |-> 1000, depth |-> 1000, diameter |-> 1000]

\* the three App components of the repository
Variants == {"dir", "basic", "fullscreen"}

\* the loader's candidate list, in its order
potentialTextures == <<"front", "back", "left", "right", "top", "bottom", "map">>

FaceKeys == {potentialTextures[i] : i \in 1..Len(potentialTextures)}

FaceIndex(f) == CHOOSE i \in 1..Len(potentialTextures) : potentialTextures[i] = f

\* a FaceTextures entry: absent, a blob: URL of an uploaded file, or the
\* remote URL `${baseUrl}/${filename}` of a candidate
NoTexture == [kind |-> "none", id |-> 0]
Blob(n) == [kind |-> "blob", id |-> n]
RemoteUrl(f) == [kind |-> "remote", id |-> FaceIndex(f)]

Handles == {Blob(n) : n \in 1..MaxBlobs} \cup {RemoteUrl(f) : f \in FaceKeys}

EmptyTextures == [f \in FaceKeys |-> NoTexture]

Bound(t) == {f \in FaceKeys : t[f] # NoTexture}

\* natural pixel sizes an image may decode to
ImageSizes == {<<2, 1>>, <<2, 3>>}

\* values a dimension field is edited to
DimInputs == {500}

\* `null` of frontRatio / sideRatio
NullRatio == <<0, 0>>

(***************************************************************************)
(* ControlPanel.getTextureFaces: the faces the panel offers per shape.     *)
(***************************************************************************)
getTextureFaces(shape) ==
  CASE shape = "CUBE" -> {"front", "back", "left", "right", "top", "bottom"}
    [] shape = "BAG" -> {"front", "back", "left", "right", "bottom"}
    [] shape = "SPHERE" -> {"map"}
    [] OTHER -> {}

(***************************************************************************)
(* parseFloat((height * ratio).toFixed(2)) with ratio = size[1] / size[2]: *)
(* the nearest hundredth, a tie going up.                                  *)
(***************************************************************************)
toFixed2(height, size) == (2 * height * size[1] + size[2]) \div (2 * size[2])

(***************************************************************************)
(* SceneViewer.tsx holds two SceneViewer components: the one with          *)
(* ContactShadows, whose materials follow showEnvironment, and the one     *)
(* with <Stage>, whose materials are fixed.  What a component returns is   *)
(* kept as a record: the shape, the args of its geometry and the material  *)
(* attached to each slot (material-0 .. material-5 of a box, the one       *)
(* material of a sphere).  A material is the url it maps (useTexture(url), *)
(* NoTexture when it maps none) and its props.  Loading the image behind a *)
(* url is not modelled.                                                    *)
(*                                                                         *)
(* Numbers: roughness and metalness in tenths; a length of the scene in    *)
(* ten-thousandths of a scene unit, so that a dimension d (hundredths of a *)
(* centimetre) times scale = 0.1 is (d / 100) * 0.1 * 10000 = d * 10.      *)
(***************************************************************************)
Viewers == {"shadows", "stage"}

getMaterialProps(env) ==
  [color |-> "#ffffff",
   roughness |-> IF env THEN 2 ELSE 10,
   metalness |-> IF env THEN 1 ELSE 0]

MATERIAL_PROPS == [color |-> "#ffffff", roughness |-> 2, metalness |-> 1]

\* the props the materials of a viewer are given
MaterialProps(v, env) == IF v = "shadows" THEN getMaterialProps(env) ELSE MATERIAL_PROPS

\* FaceMaterial: `if (url)` a TextureMaterial of the url, else a plain
\* meshStandardMaterial
FaceMaterial(v, url, env) ==
  IF url # NoTexture
  THEN [map |-> url, props |-> MaterialProps(v, env)]
  ELSE [map |-> NoTexture, props |-> MaterialProps(v, env)]

\* dimension * scale
Scaled(d) == d * 10

\* (mutant: material-4 and material-5 take each other's face)
CubeModel_FrontBackSwapped(v, dims, txs, env) ==
  [shape |-> "CUBE",
   args |-> <<Scaled(dims.width), Scaled(dims.height), Scaled(dims.depth)>>,
   material |-> (0 :> FaceMaterial(v, txs["right"], env)
              @@ 1 :> FaceMaterial(v, txs["left"], env)
              @@ 2 :> FaceMaterial(v, txs["top"], env)
              @@ 3 :> FaceMaterial(v, txs["bottom"], env)
              @@ 4 :> FaceMaterial(v, txs["back"], env)
              @@ 5 :> FaceMaterial(v, txs["front"], env))]

CubeModel(v, dims, txs, env) ==
  [shape |-> "CUBE",
   args |-> <<Scaled(dims.width), Scaled(dims.height), Scaled(dims.depth)>>,
   material |-> (0 :> FaceMaterial(v, txs["right"], env)
              @@ 1 :> FaceMaterial(v, txs["left"], env)
              @@ 2 :> FaceMaterial(v, txs["top"], env)
              @@ 3 :> FaceMaterial(v, txs["bottom"], env)
              @@ 4 :> FaceMaterial(v, txs["front"], env)
              @@ 5 :> FaceMaterial(v, txs["back"], env))]

\* (mutant: the diameter is taken for the radius)
SphereModel_DiameterAsRadius(v, dims, txs, env) ==
  [shape |-> "SPHERE",
   args |-> <<Scaled(dims.diameter), 64, 64>>,
   material |-> (0 :> FaceMaterial(v, txs["map"], env))]

\* radius = (dimensions.diameter / 2) * scale, the halving done last to stay
\* in the integers
SphereModel(v, dims, txs, env) ==
  [shape |-> "SPHERE",
   args |-> <<Scaled(dims.diameter) \div 2, 64, 64>>,
   material |-> (0 :> FaceMaterial(v, txs["map"], env))]

\* (mutant: material-2 takes the top texture, as the Cube's does)
BagModel_TopTextured(v, dims, txs, env) ==
  [shape |-> "BAG",
   args |-> <<Scaled(dims.width), Scaled(dims.height), Scaled(dims.depth)>>,
   material |-> (0 :> FaceMaterial(v, txs["right"], env)
              @@ 1 :> FaceMaterial(v, txs["left"], env)
              @@ 2 :> FaceMaterial(v, txs["top"], env)
              @@ 3 :> FaceMaterial(v, txs["bottom"], env)
              @@ 4 :> FaceMaterial(v, txs["front"], env)
              @@ 5 :> FaceMaterial(v, txs["back"], env))]

\* the body of the bag (its handles are fixed decoration): material-2 is
\* given url={null}
BagModel(v, dims, txs, env) ==
  [shape |-> "BAG",
   args |-> <<Scaled(dims.width), Scaled(dims.height), Scaled(dims.depth)>>,
   material |-> (0 :> FaceMaterial(v, txs["right"], env)
              @@ 1 :> FaceMaterial(v, txs["left"], env)
              @@ 2 :> FaceMaterial(v, NoTexture, env)
              @@ 3 :> FaceMaterial(v, txs["bottom"], env)
              @@ 4 :> FaceMaterial(v, txs["front"], env)
              @@ 5 :> FaceMaterial(v, txs["back"], env))]

\* objectHeight: the height of the object in scene units
objectHeight(shape, dims) ==
  CASE shape = "SPHERE" -> Scaled(dims.diameter)
    [] shape \in {"CUBE", "BAG"} -> Scaled(dims.height)
    [] OTHER -> 10000

\* shadowY = -(objectHeight / 2), the y of <ContactShadows>
shadowY(shape, dims) == 0 - (objectHeight(shape, dims) \div 2)

\* the model of the shape
ShapeModel(v, shape, dims, env, txs) ==
  CASE shape = "CUBE" -> CubeModel(v, dims, txs, env)
    [] shape = "SPHERE" -> SphereModel(v, dims, txs, env)
    [] shape = "BAG" -> BagModel(v, dims, txs, env)

\* what a SceneViewer returns for its props: the model of the shape, and in
\* the version with ContactShadows the y of the shadow plane
SceneViewer(v, shape, dims, env, txs) ==
  IF v = "shadows"
  THEN [shadowY |-> shadowY(shape, dims)] @@ ShapeModel(v, shape, dims, env, txs)
  ELSE ShapeModel(v, shape, dims, env, txs)

(***************************************************************************)
(* The y range of the geometry a model emits, before <Center> moves it, in *)
(* millionths of a scene unit (an arg of the scene times 100).  A box and  *)
(* a sphere are centred on their mesh.  The Bag has, on top of its body,   *)
(* the group of its handles at y = h / 2: posts (cylinders 0.16 high at    *)
(* y = 0.08) and half tori (radius w * 0.15, tube 0.02, arc PI, at         *)
(* y = 0.15), which reach up to h / 2 + 0.15 + w * 0.15 + 0.02.            *)
(***************************************************************************)
EmittedYRange(model) ==
  CASE model.shape = "SPHERE" ->
         [ymin |-> 0 - 100 * model.args[1], ymax |-> 100 * model.args[1]]
    [] model.shape = "CUBE" ->
         [ymin |-> 0 - 50 * model.args[2], ymax |-> 50 * model.args[2]]
    [] model.shape = "BAG" ->
         [ymin |-> 0 - 50 * model.args[2],
          ymax |-> 50 * model.args[2] + 150000 + 15 * model.args[1] + 20000]

\* <Center position={[0, 0, 0]}> moves its content so that the middle of its
\* bounding box is at the origin: the lowest point of the content after that
CenteredBottom(range) == 0 - ((range.ymax - range.ymin) \div 2)

\* nothing drawn, nothing exported yet
NoImage == [shape |-> "none"]

VARIABLES
  variant,        \* which App component runs
  selectedShape,  \* useState<ShapeType>
  dimensions,     \* useState<ShapeDimensions>
  textures,       \* useState<FaceTextures>, latest committed value
  captured,       \* the `textures` value the handlers of the last render close over
  revoked,        \* URL.revokeObjectURL calls so far, per handle
  created,        \* URL.createObjectURL calls so far
  uploads,        \* handleTextureUpload calls suspended in `await getImageDimensions`
  loader,         \* loadTextures: its locals and the probes still outstanding
  viewer,         \* which SceneViewer component runs
  showEnvironment, \* useState(false)
  scene,          \* the three.js scene: what SceneViewer returned when last rendered
  canvas,         \* the drawing buffer: the scene as gl.render drew it last
  download        \* the image the last capture handed to the browser

\* the variables of the view
viewVars == <<viewer, showEnvironment, scene, canvas, download>>

vars == <<variant, selectedShape, dimensions, textures, captured, revoked, created, uploads, loader,
          viewVars>>

\* URL.revokeObjectURL(h) for every h of the set hs. The count per handle is
\* kept as 0, 1 or 2, where 2 stands for "twice or more".
Revoke(r, hs) == [h \in Handles |-> IF h \in hs /\ r[h] < 2 THEN r[h] + 1 ELSE r[h]]

\* probed is history, not a local of loadTextures: the size each resolved
\* probe reported (NullRatio while outstanding and after a failure)
IdleLoader ==
  [phase |-> "none", pending |-> {}, newTextures |-> EmptyTextures,
   frontRatio |-> NullRatio, sideRatio |-> NullRatio,
   probed |-> [f \in FaceKeys |-> NullRatio]]

\* loadTextures() called from the mount effect: seven probes outstanding
StartedLoader == [IdleLoader EXCEPT !.phase = "probing", !.pending = FaceKeys]

Init ==
  /\ variant \in Variants
  /\ selectedShape = "CUBE"
  /\ dimensions = DEFAULT_DIMENSIONS
  /\ textures = EmptyTextures
  /\ captured = EmptyTextures
  /\ revoked = [h \in Handles |-> 0]
  /\ created = 0
  /\ uploads = {}
  /\ loader \in (IF variant = "dir" THEN {IdleLoader, StartedLoader} ELSE {IdleLoader})
  /\ viewer \in Viewers
  /\ showEnvironment = FALSE
  /\ scene = SceneViewer(viewer, selectedShape, dimensions, showEnvironment, textures)
  /\ canvas = NoImage
  /\ download = NoImage

(***************************************************************************)
(* React commits a render: the handlers now close over the committed map.  *)
(***************************************************************************)
Render ==
  /\ captured # textures
  /\ captured' = textures
  /\ UNCHANGED <<viewVars, variant, selectedShape, dimensions, textures, revoked, created, uploads, loader>>

(***************************************************************************)
(* handleShapeChange, with the effect on [selectedShape] of the variants   *)
(* that have it: setTextures({}), no revoke.                               *)
(***************************************************************************)
ResetsOnShapeChange(v) == v \in {"basic", "fullscreen"}

\* (mutant: a change of shape puts the dimensions back to the defaults)
handleShapeChange_ResetsDimensions(shape) ==
  /\ selectedShape' = shape
  /\ textures' = IF ResetsOnShapeChange(variant) /\ shape # selectedShape
                 THEN EmptyTextures ELSE textures
  /\ dimensions' = IF shape # selectedShape THEN DEFAULT_DIMENSIONS ELSE dimensions
  /\ UNCHANGED <<viewVars, variant, captured, revoked, created, uploads, loader>>

handleShapeChange(shape) ==
  /\ selectedShape' = shape
  /\ textures' = IF ResetsOnShapeChange(variant) /\ shape # selectedShape
                 THEN EmptyTextures ELSE textures
  /\ UNCHANGED <<viewVars, variant, dimensions, captured, revoked, created, uploads, loader>>

(***************************************************************************)
(* handleDimensionChange: setDimensions(prev => ({...prev, [key]: value})) *)
(***************************************************************************)
handleDimensionChange(key, value) ==
  /\ dimensions' = [dimensions EXCEPT ![key] = value]
  /\ UNCHANGED <<viewVars, variant, selectedShape, textures, captured, revoked, created, uploads, loader>>

(***************************************************************************)
(* ControlPanel.NumberInput: the text of the field (e.target.value, a      *)
(* sequence of characters) goes through parseFloat, and every value that   *)
(* is not NaN is handed to onChange.  The min={0.1} of the field is not    *)
(* looked at by the handler.                                               *)
(***************************************************************************)
DigitChars == <<"0", "1", "2", "3", "4", "5", "6", "7", "8", "9">>

IsDigit(c) == \E d \in 1..Len(DigitChars) : DigitChars[d] = c

DigitValue(c) == (CHOOSE d \in 1..Len(DigitChars) : DigitChars[d] = c) - 1

\* NaN and the numbers, a number in hundredths
NaN == [nan |-> TRUE, v |-> 0]

Number(n) == [nan |-> FALSE, v |-> n]

isNaN(val) == val.nan

RECURSIVE DigitRun(_, _)
\* the length of the run of digits of s that starts at position i
DigitRun(s, i) == IF i <= Len(s) /\ IsDigit(s[i]) THEN 1 + DigitRun(s, i + 1) ELSE 0

RECURSIVE DigitsValue(_, _, _)
\* the digits s[i] .. s[i + n - 1] read as a decimal integer
DigitsValue(s, i, n) ==
  IF n = 0 THEN 0 ELSE 10 * DigitsValue(s, i, n - 1) + DigitValue(s[i + n - 1])

\* parseFloat(s): an optional sign, digits, an optional point and digits,
\* anything after that is ignored; NaN when there is no digit.  Digits past
\* the second decimal are cut.
parseFloat(s) ==
  LET signed == Len(s) >= 1 /\ s[1] \in {"-", "+"}
      start == IF signed THEN 2 ELSE 1
      nInt == DigitRun(s, start)
      dot == start + nInt
      hasDot == dot <= Len(s) /\ s[dot] = "."
      nFrac == IF hasDot THEN DigitRun(s, dot + 1) ELSE 0
      int == DigitsValue(s, start, nInt)
      frac == IF nFrac = 0 THEN 0
              ELSE IF nFrac = 1 THEN 10 * DigitValue(s[dot + 1])
              ELSE DigitsValue(s, dot + 1, 2)
      magnitude == 100 * int + frac
  IN IF nInt + nFrac = 0 THEN NaN
     ELSE Number(IF signed /\ s[1] = "-" THEN 0 - magnitude ELSE magnitude)

\* `if (!isNaN(val))`
NumberInputAccepts(val) == ~isNaN(val)

NumberInput_onChange(key, text) ==
  LET val == parseFloat(text) IN
  IF NumberInputAccepts(val)
  THEN handleDimensionChange(key, val.v)
  ELSE UNCHANGED vars

\* (mutant: front/back drive the depth, left/right the width)
DeriveOnUpload_Swapped(prev, face, size) ==
  IF face \in {"front", "back"}
  THEN [prev EXCEPT !.depth = toFixed2(prev.height, size)]
  ELSE IF face \in {"left", "right"}
  THEN [prev EXCEPT !.width = toFixed2(prev.height, size)]
  ELSE prev

\* (mutant: the secondary face of a pair derives nothing while the priority
\* face is not the one uploaded)
DeriveOnUpload_PriorityOnly(prev, face, size) ==
  IF face = "front"
  THEN [prev EXCEPT !.width = toFixed2(prev.height, size)]
  ELSE IF face = "left"
  THEN [prev EXCEPT !.depth = toFixed2(prev.height, size)]
  ELSE prev

(***************************************************************************)
(* handleTextureUpload.                                                    *)
(*   setDimensions updater of the upload path: front/back set width,       *)
(*   left/right set depth, from the current height.                        *)
(***************************************************************************)
DeriveOnUpload(prev, face, size) ==
  IF face \in {"front", "back"}
  THEN [prev EXCEPT !.width = toFixed2(prev.height, size)]
  ELSE IF face \in {"left", "right"}
  THEN [prev EXCEPT !.depth = toFixed2(prev.height, size)]
  ELSE prev

\* (mutant: the updater forgets the revoke)
RevokedOnBind_Never(prev, face) == {}

\* setTextures updater of the upload path: the handles it revokes ...
RevokedOnBind(prev, face) ==
  IF prev[face] # NoTexture THEN {prev[face]} ELSE {}

\* (mutant: the new map is built from the `textures` of the render, not from
\* the updater's prev)
BindTexture_FromRendered(prev, face, url) == [captured EXCEPT ![face] = url]

\* ... and the map it returns
BindTexture(prev, face, url) == [prev EXCEPT ![face] = url]

\* const url = URL.createObjectURL(file); the "dir" variant then awaits the
\* image probe, the other two bind at once
handleTextureUpload(face) ==
  /\ face \in getTextureFaces(selectedShape)
  /\ created < MaxBlobs
  /\ created' = created + 1
  /\ IF variant = "dir"
     THEN /\ uploads' = uploads \cup {[face |-> face, url |-> Blob(created + 1)]}
          /\ UNCHANGED <<textures, revoked>>
     ELSE /\ revoked' = Revoke(revoked, RevokedOnBind(textures, face))
          /\ textures' = BindTexture(textures, face, Blob(created + 1))
          /\ UNCHANGED uploads
  /\ UNCHANGED <<viewVars, variant, selectedShape, dimensions, captured, loader>>

\* getImageDimensions resolved: derive the dimension, then bind
uploadResolved(u, size) ==
  /\ u \in uploads
  /\ uploads' = uploads \ {u}
  /\ dimensions' = DeriveOnUpload(dimensions, u.face, size)
  /\ revoked' = Revoke(revoked, RevokedOnBind(textures, u.face))
  /\ textures' = BindTexture(textures, u.face, u.url)
  /\ UNCHANGED <<viewVars, variant, selectedShape, captured, created, loader>>

\* getImageDimensions rejected: the catch warns, and the bind still runs
uploadRejected(u) ==
  /\ u \in uploads
  /\ uploads' = uploads \ {u}
  /\ revoked' = Revoke(revoked, RevokedOnBind(textures, u.face))
  /\ textures' = BindTexture(textures, u.face, u.url)
  /\ UNCHANGED <<viewVars, variant, selectedShape, dimensions, captured, created, loader>>

(***************************************************************************)
(* handleRemoveTexture: the button is drawn when the rendered map has the  *)
(* face; the updater works on the committed map.                           *)
(***************************************************************************)
\* (mutant: the url is revoked and the entry is kept)
RemoveTexture_KeepsEntry(prev, face) == prev

RemoveTexture(prev, face) == [prev EXCEPT ![face] = NoTexture]

handleRemoveTexture(face) ==
  /\ face \in getTextureFaces(selectedShape)
  /\ captured[face] # NoTexture
  /\ revoked' = Revoke(revoked, RevokedOnBind(textures, face))
  /\ textures' = RemoveTexture(textures, face)
  /\ UNCHANGED <<viewVars, variant, selectedShape, dimensions, captured, created, uploads, loader>>

(***************************************************************************)
(* handleResetTextures: revokes the values of the `textures` it closed     *)
(* over, then setTextures({}).                                             *)
(***************************************************************************)
RevokedOnReset(seen) == {seen[f] : f \in Bound(seen)}

handleResetTextures ==
  /\ revoked' = Revoke(revoked, RevokedOnReset(captured))
  /\ textures' = EmptyTextures
  /\ UNCHANGED <<viewVars, variant, selectedShape, dimensions, captured, created, uploads, loader>>

(***************************************************************************)
(* The view.  The environment button hands !showEnvironment of the render  *)
(* it was drawn in to setShowEnvironment: either value may be set.         *)
(***************************************************************************)
onToggleEnvironment(show) ==
  /\ showEnvironment' = show
  /\ UNCHANGED <<variant, selectedShape, dimensions, textures, captured, revoked, created,
                 uploads, loader, viewer, scene, canvas, download>>

\* React renders SceneViewer with the committed state as its props and
\* commits what it returns to the three.js scene
renderSceneViewer ==
  /\ scene' = SceneViewer(viewer, selectedShape, dimensions, showEnvironment, textures)
  /\ scene' # scene
  /\ UNCHANGED <<variant, selectedShape, dimensions, textures, captured, revoked, created,
                 uploads, loader, viewer, showEnvironment, canvas, download>>

\* a tick of the frame loop of <Canvas>: the scene is drawn
frame ==
  /\ canvas # scene
  /\ canvas' = scene
  /\ UNCHANGED <<variant, selectedShape, dimensions, textures, captured, revoked, created,
                 uploads, loader, viewer, showEnvironment, scene, download>>

\* (mutant: the pixels are read back with no render before it)
capture_NoForcedRender ==
  /\ download' = canvas
  /\ UNCHANGED <<variant, selectedShape, dimensions, textures, captured, revoked, created,
                 uploads, loader, viewer, showEnvironment, scene, canvas>>

\* ScreenshotHandler.capture: gl.render(scene, camera), then the download of
\* gl.domElement.toDataURL
capture ==
  /\ canvas' = scene
  /\ download' = canvas'
  /\ UNCHANGED <<variant, selectedShape, dimensions, textures, captured, revoked, created,
                 uploads, loader, viewer, showEnvironment, scene>>

\* screenshotRef.current is set when ScreenshotHandler mounts
handleScreenshotClick == capture

(***************************************************************************)
(* loadTextures (the "dir" variant's mount effect).                        *)
(***************************************************************************)
\* `if (frontRatio)`: neither null nor 0
Truthy(ratio) == ratio # NullRatio /\ ratio[1] # 0

\* (mutant: back takes the width ratio, right the depth ratio, also when the
\* priority face already gave one)
ProbeSucceeded_LastWins(l, key, size) ==
  [l EXCEPT
     !.pending = @ \ {key},
     !.newTextures = [@ EXCEPT ![key] = RemoteUrl(key)],
     !.frontRatio = IF key \in {"front", "back"} THEN size ELSE @,
     !.sideRatio = IF key \in {"left", "right"} THEN size ELSE @,
     !.probed = [@ EXCEPT ![key] = size]]

\* (mutant: no fall-back to the secondary face)
ProbeSucceeded_NoFallback(l, key, size) ==
  [l EXCEPT
     !.pending = @ \ {key},
     !.newTextures = [@ EXCEPT ![key] = RemoteUrl(key)],
     !.frontRatio = IF key = "front" THEN size ELSE @,
     !.sideRatio = IF key = "left" THEN size ELSE @,
     !.probed = [@ EXCEPT ![key] = size]]

\* body of one probe callback after `await getImageDimensions(url)` resolved
ProbeSucceeded(l, key, size) ==
  [l EXCEPT
     !.pending = @ \ {key},
     !.newTextures = [@ EXCEPT ![key] = RemoteUrl(key)],
     !.frontRatio = IF key = "front" THEN size
                    ELSE IF key = "back" /\ @ = NullRatio THEN size
                    ELSE @,
     !.sideRatio = IF key = "left" THEN size
                   ELSE IF key = "right" /\ @ = NullRatio THEN size
                   ELSE @,
     !.probed = [@ EXCEPT ![key] = size]]

\* (mutant: one rejection rejects Promise.all, the results are dropped)
ProbeFailed_Aborts(l, key) ==
  [l EXCEPT !.pending = {}, !.newTextures = EmptyTextures,
            !.frontRatio = NullRatio, !.sideRatio = NullRatio]

\* the catch of one probe callback: nothing is recorded
ProbeFailed(l, key) == [l EXCEPT !.pending = @ \ {key}]

\* setTextures((prev) => ({ ...prev, ...newTextures }))
MergeTextures(prev, newTextures) ==
  [f \in FaceKeys |-> IF newTextures[f] # NoTexture THEN newTextures[f] ELSE prev[f]]

\* (mutant: the loader fits the height to the depth ratio)
DeriveOnLoad_FitsHeight(prev, frontRatio, sideRatio) ==
  [prev EXCEPT
     !.width = IF Truthy(frontRatio) THEN toFixed2(prev.height, frontRatio) ELSE @,
     !.height = IF Truthy(sideRatio) THEN toFixed2(prev.height, sideRatio) ELSE @]

\* setDimensions updater of the loader
DeriveOnLoad(prev, frontRatio, sideRatio) ==
  [prev EXCEPT
     !.width = IF Truthy(frontRatio) THEN toFixed2(prev.height, frontRatio) ELSE @,
     !.depth = IF Truthy(sideRatio) THEN toFixed2(prev.height, sideRatio) ELSE @]

\* (mutant: every probe merges its face as it resolves)
Settle_Incremental(l) ==
  /\ loader' = [l EXCEPT !.phase = IF l.pending = {} THEN "done" ELSE @]
  /\ textures' = MergeTextures(textures, l.newTextures)
  /\ dimensions' = IF l.pending = {}
                   THEN DeriveOnLoad(dimensions, l.frontRatio, l.sideRatio)
                   ELSE dimensions

\* what follows `await Promise.all(...)`, run in the turn of the probe that
\* settles last; l is the loader after that probe
Settle(l) ==
  IF l.pending # {}
  THEN /\ loader' = l
       /\ UNCHANGED <<textures, dimensions>>
  ELSE /\ loader' = [l EXCEPT !.phase = "done"]
       /\ IF Bound(l.newTextures) # {}
          THEN /\ textures' = MergeTextures(textures, l.newTextures)
               /\ dimensions' = DeriveOnLoad(dimensions, l.frontRatio, l.sideRatio)
          ELSE UNCHANGED <<textures, dimensions>>

probeResolved(key, size) ==
  /\ loader.phase = "probing"
  /\ key \in loader.pending
  /\ Settle(ProbeSucceeded(loader, key, size))
  /\ UNCHANGED <<viewVars, variant, selectedShape, captured, revoked, created, uploads>>

probeRejected(key) ==
  /\ loader.phase = "probing"
  /\ key \in loader.pending
  /\ Settle(ProbeFailed(loader, key))
  /\ UNCHANGED <<viewVars, variant, selectedShape, captured, revoked, created, uploads>>

(***************************************************************************)
(* ControlPanel: the dimension fields drawn per shape.                     *)
(***************************************************************************)
DimensionFields(shape) ==
  IF shape = "SPHERE" THEN {"diameter"} ELSE {"width", "height", "depth"}

\* sizes of the remote candidates; the size of an image no ratio is taken
\* from is left at one value
RemoteSizes(key) ==
  IF key \in {"front", "back", "left", "right"} THEN {<<3, 2>>, <<4, 5>>} ELSE {<<1, 1>>}

(***************************************************************************)
(* The session: every intent of the control panel, every continuation.     *)
(***************************************************************************)
TextureIntents ==
  \/ \E face \in FaceKeys : handleTextureUpload(face)
  \/ \E u \in uploads, size \in ImageSizes : uploadResolved(u, size)
  \/ \E u \in uploads : uploadRejected(u)
  \/ \E face \in FaceKeys : handleRemoveTexture(face)

ViewerNext ==
  \/ \E show \in BOOLEAN : onToggleEnvironment(show)
  \/ renderSceneViewer
  \/ frame
  \/ handleScreenshotClick

UserNext ==
  \/ Render
  \/ ViewerNext
  \/ \E shape \in ShapeType : handleShapeChange(shape)
  \/ \E key \in DimensionFields(selectedShape), value \in DimInputs :
       handleDimensionChange(key, value)
  \/ TextureIntents
  \/ handleResetTextures

LoaderNext ==
  \/ \E key \in FaceKeys : \E size \in RemoteSizes(key) : probeResolved(key, size)
  \/ \E key \in FaceKeys : probeRejected(key)

Next == UserNext \/ LoaderNext

Spec == Init /\ [][Next]_vars

(***************************************************************************)
(* The environments explored.  Each is Spec with the user held to a part   *)
(* of the control panel, so that the state space stays finite and small.   *)
(***************************************************************************)
\* no ?dir= in the URL: loadTextures never starts.  The environments of the
\* session state never look at the view and run with one viewer.
InitSession == Init /\ loader = IdleLoader /\ viewer = "shadows"

\* ?dir= given to the variant that reads it
InitLoader == Init /\ loader = StartedLoader /\ viewer = "shadows"

\* the environments of the view run with either viewer
InitView == Init /\ loader = IdleLoader

\* binds and removes only
BindNext == Render \/ TextureIntents

SpecBind == InitSession /\ [][BindNext]_vars

\* the texture life cycle: binds, removes, reset, shape change
TexturesNext ==
  \/ BindNext
  \/ handleResetTextures
  \/ \E shape \in ShapeType : handleShapeChange(shape)

SpecTextures == InitSession /\ [][TexturesNext]_vars

\* dimension edits and uploads
DimensionsNext ==
  \/ \E key \in DimensionFields(selectedShape), value \in DimInputs :
       handleDimensionChange(key, value)
  \/ \E shape \in ShapeType : handleShapeChange(shape)
  \/ \E face \in FaceKeys : handleTextureUpload(face)
  \/ \E u \in uploads, size \in ImageSizes : uploadResolved(u, size)
  \/ \E u \in uploads : uploadRejected(u)

SpecDimensions == InitSession /\ [][DimensionsNext]_vars

\* the loader with a user who, meanwhile, edits the height and works on the
\* faces of LoaderUserFaces, with at most MaxLoaderUploads uploads
LoaderUserFaces == {"front"}

MaxLoaderUploads == 1

LoaderSessionNext ==
  \/ LoaderNext
  \/ Render
  \/ \E value \in DimInputs : handleDimensionChange("height", value)
  \/ \E face \in LoaderUserFaces :
       created < MaxLoaderUploads /\ handleTextureUpload(face)
  \/ \E u \in uploads, size \in ImageSizes : uploadResolved(u, size)
  \/ \E u \in uploads : uploadRejected(u)
  \/ \E face \in LoaderUserFaces : handleRemoveTexture(face)

SpecLoader == InitLoader /\ [][LoaderSessionNext]_vars

\* uploads and resets only
ResetNext ==
  \/ Render
  \/ \E face \in FaceKeys : handleTextureUpload(face)
  \/ \E u \in uploads, size \in ImageSizes : uploadResolved(u, size)
  \/ \E u \in uploads : uploadRejected(u)
  \/ handleResetTextures

SpecReset == InitSession /\ [][ResetNext]_vars

\* the dimension fields edited while the view is watched
ViewFields == {"height", "diameter"}

\* uploads in one run of the view
MaxViewUploads == 1

\* the view of a session with uploads: shape, dimensions, textures and
\* environment change, SceneViewer is rendered
ViewNext ==
  \/ \E shape \in ShapeType : handleShapeChange(shape)
  \/ \E key \in DimensionFields(selectedShape) \cap ViewFields, value \in DimInputs :
       handleDimensionChange(key, value)
  \/ \E face \in FaceKeys : created < MaxViewUploads /\ handleTextureUpload(face)
  \/ \E u \in uploads, size \in ImageSizes : uploadResolved(u, size)
  \/ \E u \in uploads : uploadRejected(u)
  \/ \E show \in BOOLEAN : onToggleEnvironment(show)
  \/ renderSceneViewer

SpecView == InitView /\ [][ViewNext]_vars

\* captures of a session whose shape, dimensions and environment change
CaptureNext ==
  \/ \E shape \in ShapeType : handleShapeChange(shape)
  \/ \E key \in DimensionFields(selectedShape) \cap ViewFields, value \in DimInputs :
       handleDimensionChange(key, value)
  \/ \E show \in BOOLEAN : onToggleEnvironment(show)
  \/ renderSceneViewer
  \/ frame
  \/ handleScreenshotClick

SpecCapture == InitView /\ [][CaptureNext]_vars

\* the candidates the remote directory holds while every texture operation
\* is watched
AnchorRemote == {"front", "left"}

\* the faces the user uploads to meanwhile: one that drives a dimension,
\* one that drives none
AnchorUserFaces == {"front", "top"}

\* every texture operation: the loader over a directory that holds the
\* candidates of AnchorRemote, uploads to the faces of AnchorUserFaces,
\* removes, resets, and edits of the height
InitAnchor == Init /\ viewer = "shadows"

AnchorNext ==
  \/ \E key \in AnchorRemote : \E size \in RemoteSizes(key) : probeResolved(key, size)
  \/ \E key \in FaceKeys : probeRejected(key)
  \/ Render
  \/ \E value \in DimInputs : handleDimensionChange("height", value)
  \/ \E face \in AnchorUserFaces : created < MaxLoaderUploads /\ handleTextureUpload(face)
  \/ \E u \in uploads, size \in ImageSizes : uploadResolved(u, size)
  \/ \E u \in uploads : uploadRejected(u)
  \/ \E face \in FaceKeys : handleRemoveTexture(face)
  \/ handleResetTextures

SpecAnchor == InitAnchor /\ [][AnchorNext]_vars

\* continuations that resolve one after the other with no render between
\* them: the decodes of uploads to RaceUserFaces and the probes of a loader
\* over a directory that holds the candidates of RaceRemote
RaceUserFaces == {"front", "left", "top"}

RaceRemote == {"left", "bottom"}

RaceNext ==
  \/ \E key \in RaceRemote : \E size \in RemoteSizes(key) : probeResolved(key, size)
  \/ \E key \in FaceKeys : probeRejected(key)
  \/ \E face \in RaceUserFaces : handleTextureUpload(face)
  \/ \E u \in uploads, size \in ImageSizes : uploadResolved(u, size)
  \/ \E u \in uploads : uploadRejected(u)

SpecRace == InitAnchor /\ [][RaceNext]_vars

\* what the user leaves in a dimension field: nothing (also what the field
\* reports for a text that is no number), 5, 0, -5, 2.5
FieldTexts == {<<>>, <<"5">>, <<"0">>, <<"-", "5">>, <<"2", ".", "5">>}

\* typing into the dimension fields
InputNext ==
  \/ \E key \in DimensionFields(selectedShape), text \in FieldTexts :
       NumberInput_onChange(key, text)
  \/ \E shape \in ShapeType : handleShapeChange(shape)

SpecInput == InitSession /\ [][InputNext]_vars

\* typing into the dimension fields, switching the shape and the environment
ShapeNext ==
  \/ InputNext
  \/ \E show \in BOOLEAN : onToggleEnvironment(show)

SpecShape == InitSession /\ [][ShapeNext]_vars

(***************************************************************************)
(* Properties.                                                             *)
(***************************************************************************)
\* the handles a map holds
HandlesOf(t) == {t[f] : f \in Bound(t)}

\* v is height * size[1] / size[2] rounded to the nearest hundredth, a tie
\* going up
IsRound2(v, height, size) ==
  /\ 2 * v * size[2] - size[2] <= 2 * height * size[1]
  /\ 2 * height * size[1] < 2 * v * size[2] + size[2]

\* C1: every change of shape ends with the FaceTextureMap empty and with
\* every handle that was bound just before it released exactly once more.
C1_ShapeChangeReleasesAll ==
  [][\A shape \in ShapeType :
       (shape # selectedShape /\ handleShapeChange(shape)) =>
         /\ textures' = EmptyTextures
         /\ \A h \in Handles :
              revoked'[h] = IF h \in HandlesOf(textures) /\ revoked[h] < 2
                            THEN revoked[h] + 1 ELSE revoked[h]]_vars

\* C2: under binds and removes alone, a step that takes a face's resource
\* away (rebinding or removing it) releases that resource exactly once, the
\* resource bound in its place is unreleased, and no handle is ever released
\* twice.
C2_ReleaseStep ==
  \A f \in FaceKeys :
    (textures[f] # NoTexture /\ textures'[f] # textures[f]) =>
      /\ revoked[textures[f]] = 0
      /\ revoked'[textures[f]] = 1
      /\ textures'[f] # NoTexture => revoked'[textures'[f]] = 0

C2_RebindReleasesOldOnce ==
  /\ [][C2_ReleaseStep]_vars
  /\ [](\A h \in Handles : revoked[h] <= 1)

\* C2 witness: front was bound to the first blob and rebound to the second.
C2_Witness ==
  /\ textures["front"] = Blob(2)
  /\ revoked[Blob(1)] = 1
  /\ revoked[Blob(2)] = 0

\* C3: a resetTextures call made when the map is already empty (the call
\* before it emptied it) leaves it empty and releases no handle that is
\* already released.
C3_SecondResetReleasesNothing ==
  [][(handleResetTextures /\ textures = EmptyTextures) =>
       /\ textures' = EmptyTextures
       /\ \A h \in Handles : revoked[h] >= 1 => revoked'[h] = revoked[h]]_vars

\* C4: a step that puts another resource on an occupied face releases the
\* resource that was there, in that same step.
C4_RebindReleasesPrevious ==
  [][\A f \in FaceKeys :
       (textures[f] # NoTexture /\ textures'[f] # NoTexture /\ textures'[f] # textures[f]) =>
         revoked'[textures[f]] = IF revoked[textures[f]] < 2
                                 THEN revoked[textures[f]] + 1 ELSE 2]_vars

\* C5: an upload whose image decoded with size (w, h), ratio r = w / h:
\* front/back set width to round2(height * r) and leave depth alone,
\* left/right set depth and leave width alone, any other face changes no
\* dimension; height and diameter never change.  Cube at 10/10/10/10 with a
\* 2:1 front image ends at width 20, height 10, depth 10.
C5_UploadDerivesDimension ==
  [][\A u \in uploads : \A size \in ImageSizes :
       uploadResolved(u, size) =>
         /\ dimensions'.height = dimensions.height
         /\ dimensions'.diameter = dimensions.diameter
         /\ u.face \in {"front", "back"} =>
              /\ IsRound2(dimensions'.width, dimensions.height, size)
              /\ dimensions'.depth = dimensions.depth
         /\ u.face \in {"left", "right"} =>
              /\ IsRound2(dimensions'.depth, dimensions.height, size)
              /\ dimensions'.width = dimensions.width
         /\ u.face \in {"top", "bottom", "map"} => dimensions' = dimensions
         /\ (u.face = "front" /\ size = <<2, 1>> /\ dimensions = DEFAULT_DIMENSIONS) =>
              dimensions' = [width |-> 2000, height |-> 1000, depth |-> 1000, diameter |-> 1000]]_vars

\* C5 witness: the one upload so far went to front of the default Cube and
\* decoded as 2:1.
C5_Witness ==
  /\ created = 1
  /\ uploads = {}
  /\ textures["front"] = Blob(1)
  /\ dimensions = [width |-> 2000, height |-> 1000, depth |-> 1000, diameter |-> 1000]

\* C7 as claimed: an upload to back that decodes while front is bound leaves
\* the width alone, and one to right while left is bound leaves the depth
\* alone.
C7_SecondaryDoesNotRederive ==
  [][\A u \in uploads : \A size \in ImageSizes :
       uploadResolved(u, size) =>
         /\ (u.face = "back" /\ textures["front"] # NoTexture) =>
              dimensions'.width = dimensions.width
         /\ (u.face = "right" /\ textures["left"] # NoTexture) =>
              dimensions'.depth = dimensions.depth]_vars

\* C7 as amended: every decoded upload to front or back sets the width from
\* its own ratio, also while the other face of the pair is bound; likewise
\* left and right for the depth.
C7_LastDecodedUploadWins ==
  [][\A u \in uploads : \A size \in ImageSizes :
       uploadResolved(u, size) =>
         /\ (u.face = "back" /\ textures["front"] # NoTexture) =>
              IsRound2(dimensions'.width, dimensions.height, size)
         /\ (u.face = "front" /\ textures["back"] # NoTexture) =>
              IsRound2(dimensions'.width, dimensions.height, size)
         /\ (u.face = "right" /\ textures["left"] # NoTexture) =>
              IsRound2(dimensions'.depth, dimensions.height, size)
         /\ (u.face = "left" /\ textures["right"] # NoTexture) =>
              IsRound2(dimensions'.depth, dimensions.height, size)]_vars

\* C7 witness: front was uploaded first and decoded as 2:1, back second and
\* decoded as 2:3: both are bound and the width is back's 6.67.
C7_Witness ==
  /\ textures["front"] = Blob(1)
  /\ textures["back"] = Blob(2)
  /\ dimensions = [width |-> 667, height |-> 1000, depth |-> 1000, diameter |-> 1000]

\* the step in which loadTextures finishes
MergeStep == loader.phase = "probing" /\ loader'.phase = "done"

\* the faces whose probe resolved, and those whose probe rejected
Succeeded(l) == {f \in FaceKeys \ l.pending : l.probed[f] # NullRatio}

Failed(l) == {f \in FaceKeys \ l.pending : l.probed[f] = NullRatio}

\* C6: when the probes of front and back both resolved, the loader sets the
\* width to round2(height * front's ratio), whichever resolved first, and
\* when left and right both resolved the depth comes from left.
C6_PriorityFaceWins ==
  [][MergeStep =>
       /\ {"front", "back"} \subseteq Succeeded(loader') =>
            IsRound2(dimensions'.width, dimensions.height, loader'.probed["front"])
       /\ {"left", "right"} \subseteq Succeeded(loader') =>
            IsRound2(dimensions'.depth, dimensions.height, loader'.probed["left"])]_vars

\* C6 witness: front resolved as 3:2, back as 4:5, and the width is 15.
C6_Witness ==
  /\ loader.phase = "done"
  /\ loader.probed["front"] = <<3, 2>>
  /\ loader.probed["back"] = <<4, 5>>
  /\ textures["front"] = RemoteUrl("front")
  /\ textures["back"] = RemoteUrl("back")
  /\ dimensions.height = 1000
  /\ dimensions.width = 1500

\* C8: when only Back.png (3:2) and Right.png (4:5) exist, the loader sets
\* width to round2(height * 1.5) and depth to round2(height * 0.8), leaves
\* height and diameter alone, binds back and right and touches no other face.
C8_FallbackToSecondary ==
  [][(/\ MergeStep
      /\ Succeeded(loader') = {"back", "right"}
      /\ loader'.probed["back"] = <<3, 2>>
      /\ loader'.probed["right"] = <<4, 5>>) =>
       /\ IsRound2(dimensions'.width, dimensions.height, <<3, 2>>)
       /\ IsRound2(dimensions'.depth, dimensions.height, <<4, 5>>)
       /\ dimensions.height = 1000 => (dimensions'.width = 1500 /\ dimensions'.depth = 800)
       /\ dimensions'.height = dimensions.height
       /\ dimensions'.diameter = dimensions.diameter
       /\ textures'["back"] = RemoteUrl("back")
       /\ textures'["right"] = RemoteUrl("right")
       /\ \A f \in FaceKeys \ {"back", "right"} : textures'[f] = textures[f]
       /\ Bound(textures) = {} => Bound(textures') = {"back", "right"}]_vars

\* C8 witness: the loader finished with exactly back and right bound.
C8_Witness ==
  /\ loader.phase = "done"
  /\ Succeeded(loader) = {"back", "right"}
  /\ loader.probed["back"] = <<3, 2>>
  /\ loader.probed["right"] = <<4, 5>>
  /\ created = 0
  /\ Bound(textures) = {"back", "right"}
  /\ dimensions = [width |-> 1500, height |-> 1000, depth |-> 800, diameter |-> 1000]

\* C9: whatever probes fail, the loader finishes as soon as every probe has
\* settled; it then binds every face whose probe resolved and leaves every
\* face whose probe failed as it was, and when all seven fail it changes
\* neither the map nor the dimensions.
C9_FailuresAreSkipped ==
  /\ [][MergeStep =>
          /\ \A f \in Succeeded(loader') : textures'[f] = RemoteUrl(f)
          /\ \A f \in Failed(loader') : textures'[f] = textures[f]
          /\ Succeeded(loader') = {} => (textures' = textures /\ dimensions' = dimensions)]_vars
  /\ [](loader.phase = "probing" <=> loader.pending # {})
  /\ [](loader.phase = "done" => Succeeded(loader) \cup Failed(loader) = FaceKeys)

\* C9 witness: the loader finished with two probes resolved and five failed.
C9_Witness ==
  /\ loader.phase = "done"
  /\ Succeeded(loader) = {"left", "top"}
  /\ created = 0
  /\ textures["left"] = RemoteUrl("left")
  /\ textures["top"] = RemoteUrl("top")
  /\ Bound(textures) = {"left", "top"}

\* the size the width (the depth) is derived from
WidthSource(l) == IF "front" \in Succeeded(l) THEN l.probed["front"] ELSE l.probed["back"]

DepthSource(l) == IF "left" \in Succeeded(l) THEN l.probed["left"] ELSE l.probed["right"]

\* C10: no remote texture is in the committed or the rendered map before the
\* loader has finished, and the one step of the loader that changes the map
\* or the dimensions puts in every resolved face and the derived width and
\* depth together.
C10_MergeIsOneStep ==
  /\ [](loader.phase # "done" =>
          \A f \in FaceKeys : textures[f].kind # "remote" /\ captured[f].kind # "remote")
  /\ [][(loader' # loader /\ (textures' # textures \/ dimensions' # dimensions)) =>
          /\ MergeStep
          /\ \A f \in Succeeded(loader') : textures'[f] = RemoteUrl(f)
          /\ Succeeded(loader') \cap {"front", "back"} # {} =>
               IsRound2(dimensions'.width, dimensions.height, WidthSource(loader'))
          /\ Succeeded(loader') \cap {"left", "right"} # {} =>
               IsRound2(dimensions'.depth, dimensions.height, DepthSource(loader'))]_vars

\* C10 witness: a render shows the merged map of a loader that found front,
\* left and top, with width and depth derived.
C10_Witness ==
  /\ loader.phase = "done"
  /\ Succeeded(loader) = {"front", "left", "top"}
  /\ loader.probed["front"] = <<3, 2>>
  /\ loader.probed["left"] = <<4, 5>>
  /\ captured = textures
  /\ Bound(textures) = {"front", "left", "top"}
  /\ textures["front"] = RemoteUrl("front")
  /\ dimensions = [width |-> 1500, height |-> 1000, depth |-> 800, diameter |-> 1000]

\* C11: when the probe batch finishes, a face the user has bound by an
\* upload since the batch started keeps that binding: the late result of
\* the batch does not overwrite it.
C11_LateResultIsIgnored ==
  [][MergeStep =>
       \A f \in FaceKeys : textures[f].kind = "blob" => textures'[f] = textures[f]]_vars

\* C12: a key stroke that leaves a text in a dimension field which is no
\* number, or a number that is zero or negative, leaves every dimension as
\* it was.
C12_InvalidInputIsRejected ==
  [][\A key \in DimKeys : \A text \in FieldTexts :
       (/\ NumberInput_onChange(key, text)
        /\ (isNaN(parseFloat(text)) \/ parseFloat(text).v <= 0)) =>
         dimensions' = dimensions]_vars

\* C13: when the image of an upload cannot be decoded, the face of the
\* upload keeps what it had (an unbound face stays unbound) and the
\* dimensions are unchanged.
C13_FailedDecodeBindsNothing ==
  [][\A u \in uploads :
       uploadRejected(u) =>
         /\ textures'[u.face] = textures[u.face]
         /\ dimensions' = dimensions]_vars

\* C14: when the image of an upload to a bound face cannot be decoded, the
\* resource bound to the face is not released.
C14_NoReleaseBeforeValid ==
  [][\A u \in uploads :
       (uploadRejected(u) /\ textures[u.face] # NoTexture) =>
         revoked'[textures[u.face]] = revoked[textures[u.face]]]_vars

\* the scene shows the committed state
SceneIsCurrent ==
  scene = SceneViewer(viewer, selectedShape, dimensions, showEnvironment, textures)

\* the face keys of the six slots of a box, slot 0 first
BoxSlots == <<"right", "left", "top", "bottom", "front", "back">>

C17_CubeSlotOrder ==
  [][(renderSceneViewer /\ selectedShape = "CUBE") =>
       /\ DOMAIN scene'.material = 0..5
       /\ \A i \in 0..5 : scene'.material[i].map = textures[BoxSlots[i + 1]]]_vars

\* C17 witness: a Cube rendered with front bound: material-4 maps it, no
\* other material maps anything.
C17_Witness ==
  /\ SceneIsCurrent
  /\ selectedShape = "CUBE"
  /\ textures["front"] = Blob(1)
  /\ scene.material[4].map = Blob(1)
  /\ \A i \in {0, 1, 2, 3, 5} : scene.material[i].map = NoTexture

\* C18: a rendered Sphere has one material, which maps what the map binds
\* to `map`; no material of a Cube or Bag maps it; and every material that
\* maps no texture has roughness 0.2 and metalness 0.1 when the environment
\* is shown, roughness 1.0 and metalness 0 when it is not.
C18_DefaultMaterialFinish ==
  [][renderSceneViewer =>
       /\ selectedShape = "SPHERE" =>
            /\ DOMAIN scene'.material = {0}
            /\ scene'.material[0].map = textures["map"]
       /\ (selectedShape \in {"CUBE", "BAG"} /\ textures["map"] # NoTexture) =>
            \A i \in DOMAIN scene'.material : scene'.material[i].map # textures["map"]
       /\ \A i \in DOMAIN scene'.material :
            scene'.material[i].map = NoTexture =>
              /\ scene'.material[i].props.roughness = (IF showEnvironment THEN 2 ELSE 10)
              /\ scene'.material[i].props.metalness = (IF showEnvironment THEN 1 ELSE 0)]_vars

\* C19: a rendered Sphere has radius (diameter / 2) * 0.1 (a radius in
\* ten-thousandths of a scene unit, a diameter in hundredths of a
\* centimetre: radius / 10000 = diameter / 100 / 2 / 10), diameter 10 giving
\* radius 0.5; a rendered Cube or Bag has the extents width * 0.1,
\* height * 0.1, depth * 0.1; and rendering leaves the dimensions as they
\* are.
C19_SceneScale ==
  [][renderSceneViewer =>
       /\ dimensions' = dimensions
       /\ selectedShape = "SPHERE" =>
            /\ 2000 * scene'.args[1] = 10000 * dimensions.diameter
            /\ dimensions.diameter = 1000 => scene'.args[1] = 5000
       /\ selectedShape \in {"CUBE", "BAG"} =>
            /\ 1000 * scene'.args[1] = 10000 * dimensions.width
            /\ 1000 * scene'.args[2] = 10000 * dimensions.height
            /\ 1000 * scene'.args[3] = 10000 * dimensions.depth]_vars

\* C19 witness: the Sphere of diameter 10 rendered with radius 0.5.
C19_Witness ==
  /\ SceneIsCurrent
  /\ selectedShape = "SPHERE"
  /\ dimensions.diameter = 1000
  /\ scene.shape = "SPHERE"
  /\ scene.args[1] = 5000

C20_HeightIsAnchor ==
  [][/\ (dimensions'.height # dimensions.height \/ dimensions'.diameter # dimensions.diameter) =>
          \E key \in {"height", "diameter"} : \E value \in DimInputs :
            handleDimensionChange(key, value)
     /\ (\/ \E face \in FaceKeys : handleTextureUpload(face)
         \/ \E u \in uploads : \E size \in ImageSizes : uploadResolved(u, size)
         \/ \E u \in uploads : uploadRejected(u)
         \/ loader' # loader
         \/ \E face \in FaceKeys : handleRemoveTexture(face)
         \/ handleResetTextures) =>
          /\ dimensions'.height = dimensions.height
          /\ dimensions'.diameter = dimensions.diameter]_vars

\* C20 witness: the loader bound front and left and derived width and
\* depth, an upload was decoded, the map was reset, and height and diameter
\* are the defaults.
C20_Witness ==
  /\ loader.phase = "done"
  /\ Succeeded(loader) = {"front", "left"}
  /\ created = 1
  /\ uploads = {}
  /\ revoked[Blob(1)] = 1
  /\ textures = EmptyTextures
  /\ dimensions.width # 1000
  /\ dimensions.depth # 1000
  /\ dimensions.height = 1000
  /\ dimensions.diameter = 1000

\* C21: no continuation loses what another committed before it.  A decoded
\* upload leaves every other face as it is and leaves the dimension it does
\* not derive as it is; the merge of the loader leaves every face whose probe
\* did not resolve as it is, and leaves the width (the depth) as it is when
\* no probe of front or back (of left or right) resolved; and a bound face
\* never becomes unbound.
C21_NoLostUpdate ==
  [][/\ \A u \in uploads : \A size \in ImageSizes :
          uploadResolved(u, size) =>
            /\ \A f \in FaceKeys \ {u.face} : textures'[f] = textures[f]
            /\ textures'[u.face] = u.url
            /\ u.face \notin {"front", "back"} => dimensions'.width = dimensions.width
            /\ u.face \notin {"left", "right"} => dimensions'.depth = dimensions.depth
     /\ MergeStep =>
          /\ \A f \in FaceKeys \ Succeeded(loader') : textures'[f] = textures[f]
          /\ Succeeded(loader') \cap {"front", "back"} = {} =>
               dimensions'.width = dimensions.width
          /\ Succeeded(loader') \cap {"left", "right"} = {} =>
               dimensions'.depth = dimensions.depth
     /\ \A f \in FaceKeys : textures[f] # NoTexture => textures'[f] # NoTexture]_vars

\* C21 witness: two uploads, to front (2:1) and to top, were decoded and the
\* loader merged left (4:5) and bottom: all four faces are bound, the width
\* is the upload's 20 and the depth the loader's 8.
C21_Witness ==
  /\ loader.phase = "done"
  /\ Succeeded(loader) = {"left", "bottom"}
  /\ uploads = {}
  /\ textures["front"].kind = "blob"
  /\ textures["top"].kind = "blob"
  /\ textures["left"] = RemoteUrl("left")
  /\ textures["bottom"] = RemoteUrl("bottom")
  /\ dimensions = [width |-> 2000, height |-> 1000, depth |-> 800, diameter |-> 1000]

\* C22: in the viewer with the contact shadows, the rendered shadow plane
\* has y = -(height * 0.1) / 2 for Cube and Bag and -(diameter * 0.1) / 2 for
\* Sphere (a y in ten-thousandths of a scene unit, a dimension in hundredths
\* of a centimetre: y / 10000 = -(d / 100 / 10) / 2), and that y is the
\* lowest point of the emitted geometry once centred.
C22_ShadowAtBottom ==
  [][(renderSceneViewer /\ viewer = "shadows") =>
       /\ selectedShape \in {"CUBE", "BAG"} =>
            2000 * scene'.shadowY = 0 - 10000 * dimensions.height
       /\ selectedShape = "SPHERE" =>
            2000 * scene'.shadowY = 0 - 10000 * dimensions.diameter
       /\ 100 * scene'.shadowY = CenteredBottom(EmittedYRange(scene'))]_vars

\* C23: a change of shape leaves width, height, depth, diameter and
\* showEnvironment as they are.
C23_ShapeChangeKeepsDimensions ==
  [][\A shape \in ShapeType :
       handleShapeChange(shape) =>
         /\ \A key \in DimKeys : dimensions'[key] = dimensions[key]
         /\ showEnvironment' = showEnvironment]_vars

\* C23 witness: back on the Cube with the environment shown, with the width
\* typed under a box and the diameter typed under the Sphere still there.
C23_Witness ==
  /\ selectedShape = "CUBE"
  /\ showEnvironment
  /\ dimensions = [width |-> 500, height |-> 1000, depth |-> 1000, diameter |-> 250]

\* C24: in every state reached by uploads, removes, resets and changes of
\* shape, no face of the committed map is bound to a handle that has been
\* released.
C24_NoUseAfterRelease ==
  \A f \in FaceKeys : textures[f] # NoTexture => revoked[textures[f]] = 0

\* C24 witness: the first blob was bound and released, the second is bound
\* to back after that and is shown.
C24_Witness ==
  /\ revoked[Blob(1)] = 1
  /\ revoked[Blob(2)] = 0
  /\ Bound(textures) = {"back"}
  /\ textures["back"] = Blob(2)
  /\ captured = textures

\* C25: whenever no decode and no probe is outstanding, every bound face is
\* one the control panel offers for the selected shape.
C25_OnlyValidFaceKeys ==
  (uploads = {} /\ loader.phase # "probing") =>
    Bound(textures) \subseteq getTextureFaces(selectedShape)

====
